---- MODULE Spec2Model ----
(***************************************************************************)
(* Model of the FOLIO batch scripts of folio-location-batch:               *)
(*   pol_expenseclasses.py  (main_loop, update_expense_class,              *)
(*                           reencumber_pol)                               *)
(*   pol_fund.py            (main_loop, set_pol_fund, get_fiscal_year)     *)
(*   pol-fund-batch.py      (main_loop, set_pol_fund)                      *)
(*   location-batch.py      (delete_location_loop,                         *)
(*                           delete_location_loop_safe)                    *)
(*                                                                         *)
(* One run of one script is one behaviour: Init chooses the script and the *)
(* input file, the actions are the steps of the script's loop, cut at the  *)
(* remote calls.  An uncaught Python exception ends the run (pc =          *)
(* "crashed").  The remote store answers a PUT with a status chosen from   *)
(* Statuses; it replaces the stored record by the body exactly when it     *)
(* answers 204.  The timestamp column of the audit rows is left out.       *)
(* main() of every script passes verbose = False, so the diagnostic        *)
(* branches (if verbose:) are not part of the run.                         *)
(***************************************************************************)
EXTENDS Integers, Sequences, FiniteSets, TLC

VARIABLES
    script,            \* which script runs
    input,             \* rows of in_csv
    today,             \* date.today(), as a day number
    fiscalYears,       \* the store's answer to GET /finance/fiscal-years
    fiscal_year,       \* local of pol_fund.main_loop: what get_fiscal_year returned
    rowIdx,            \* number of rows read from in_csv so far
    pc,                \* position in the script
    polStore,          \* remote order lines, by id
    itemStore,         \* remote inventory items, by id
    audit,             \* rows written to out_csv after the header
    sent,              \* requests.put / requests.post calls issued, in order
    uuid_next,         \* next value uuid.uuid4() yields
    pol,               \* local: the POL dict being processed (mutated in place)
    my_pol,            \* local of the engine: deep copy of pol
    fundDistListOrig,  \* local of the engine: deep copy of the distributions
    exp_class_id,      \* argument of update_expense_class
    enc_list,          \* local of pol_fund.main_loop: the unreleased encumbrances found
    ret                \* tuple returned by the engine

vars == <<script, input, today, fiscalYears, fiscal_year, rowIdx, pc, polStore, itemStore, audit, sent,
          uuid_next, pol, my_pol, fundDistListOrig, exp_class_id, enc_list, ret>>

-----------------------------------------------------------------------------
(* Bounds *)

MaxRows == 2           \* longest input file explored
MaxFys == 2            \* longest list of fiscal years explored

-----------------------------------------------------------------------------
(* Values *)

None == "None"         \* Python None in a string-valued position

\* HTTP statuses the remote store answers with
Statuses == {204, 500}

\* str(status_code), as csv writes it
str(n) == IF n = 204 THEN "204" ELSE IF n = 500 THEN "500" ELSE IF n = 0 THEN "0" ELSE "?"

\* resp.text of an answer
resp_text(status) == IF status = 204 THEN "" ELSE "Internal Server Error"

\* value of a distribution's expenseClassId: a string id, a whole dict, or no key
EcStr(id)  == [t |-> "str",    id |-> id]
EcDict(id) == [t |-> "dict",   id |-> id]
EcAbsent   == [t |-> "absent", id |-> ""]

\* json.dumps / json.loads
json_dumps(x) == <<"json", x>>
json_loads(s) == s[2]

\* an empty cell of an output row (DictWriter fills missing keys)
NoCell == <<>>

-----------------------------------------------------------------------------
(* The remote store at the start of the run *)

ExpenseClasses ==
    << [id |-> "ec1", code |-> "EC1", name |-> "Books"],
       [id |-> "ec2", code |-> "EC2", name |-> "Serials"] >>

Funds ==
    << [id |-> "idF1", code |-> "F1"],
       [id |-> "idF2", code |-> "F2"] >>

FDist(code, fundId, ec, enc) ==
    [code |-> code, fundId |-> fundId, expenseClassId |-> ec, encumbrance |-> enc]

Pol(id, no, has, fd) ==
    [id |-> id, poLineNumber |-> no, hasFD |-> has, fundDistribution |-> fd]

PolIdSeq == <<"p1", "p2a", "p2b", "p3", "p4", "p5", "p6">>

InitPolStore ==
    [i \in {PolIdSeq[k] : k \in 1..Len(PolIdSeq)} |->
        CASE i = "p1"  -> Pol(i, "POL-1000-1", TRUE,
                              <<FDist("F1", "idF1", EcStr("ec1"), 1)>>)
          [] i = "p2a" -> Pol(i, "POL-2000-1", TRUE,
                              <<FDist("F1", "idF1", EcStr("ec1"), 2)>>)
          [] i = "p2b" -> Pol(i, "POL-2000-1", TRUE,
                              <<FDist("F1", "idF1", EcStr("ec1"), 3)>>)
          [] i = "p3"  -> Pol(i, "POL-3000-1", FALSE, <<>>)
          [] i = "p4"  -> Pol(i, "POL-4000-1", TRUE,
                              <<FDist("F1", "idF1", EcStr("ec1"), 4),
                                FDist("F1", "idF1", EcStr("ec1"), 5)>>)
          [] i = "p5"  -> Pol(i, "POL-5000-1", TRUE, <<>>)
          [] i = "p6"  -> Pol(i, "POL-6000-1", TRUE,
                              <<FDist("F1", "idF1", EcAbsent, 6)>>)]

\* encumbrance tokens present in the store at the start of the run
InitTokens ==
    UNION {{InitPolStore[i].fundDistribution[k].encumbrance :
               k \in 1..Len(InitPolStore[i].fundDistribution)} :
           i \in DOMAIN InitPolStore}

\* uuid.uuid4() is modelled as a source of fresh values: the run's generated
\* tokens are FirstUuid, FirstUuid + 1, ..., all above the stored ones
FirstUuid == 1 + CHOOSE m \in InitTokens : \A t \in InitTokens : t <= m

PolNos == {"POL-1000-1", "POL-2000-1", "POL-3000-1", "POL-4000-1",
           "POL-5000-1", "POL-6000-1", "POL-9999-1"}

Item(id, bc, locId, loc) ==
    [id |-> id, barcode |-> bc, permanentLocationId |-> locId, permanentLocation |-> loc]

ItemIdSeq == <<"i1", "i2a", "i2b", "i3">>

InitItemStore ==
    [i \in {ItemIdSeq[k] : k \in 1..Len(ItemIdSeq)} |->
        CASE i = "i1"  -> Item(i, "B1", "loc1", "Stacks")
          [] i = "i2a" -> Item(i, "B2", "loc1", "Stacks")
          [] i = "i2b" -> Item(i, "B2", "loc2", "Annex")
          [] i = "i3"  -> Item(i, "B3", None, None)]

Barcodes == {"B0", "B1", "B2", "B3"}

\* fiscal years: periodStart / periodEnd as <<day number, hour of day>>
FyList ==
    << [id |-> "fy1", periodStart |-> <<1, 5>>, periodEnd |-> <<3, 0>>],
       [id |-> "fy2", periodStart |-> <<4, 0>>, periodEnd |-> <<5, 0>>] >>

Days == {3, 6}

-----------------------------------------------------------------------------
(* Scripts and their inputs *)

PolScripts == {"pol_expenseclasses", "reencumber_pol", "pol_fund", "pol-fund-batch"}
ItemScripts == {"delete_location_loop", "delete_location_loop_safe"}
Scripts == PolScripts \cup ItemScripts

\* the rows an input file may hold: <<row[0], row[1]>>
RowsOf(s) ==
    IF s = "pol_expenseclasses" THEN PolNos \X {"EC2", "X"}
    ELSE IF s = "reencumber_pol" THEN PolNos \X {""}
    ELSE IF s \in PolScripts THEN PolNos \X {"F2", "X"}
    ELSE Barcodes \X {""}

SeqsUpTo(S, n) == UNION {[1..k -> S] : k \in 0..n}

-----------------------------------------------------------------------------
(* Lookup tables built once per run *)

\* get_funds: funds indexed by code; funds.get(code) is None for other codes
funds_has(code) == \E k \in 1..Len(Funds) : Funds[k].code = code
funds(code) == Funds[CHOOSE k \in 1..Len(Funds) : Funds[k].code = code]

\* ec_by_code / ec_by_id of pol_expenseclasses.main_loop; a missing key is a KeyError
ec_by_code_has(code) == \E k \in 1..Len(ExpenseClasses) : ExpenseClasses[k].code = code
ec_by_code(code) ==
    ExpenseClasses[CHOOSE k \in 1..Len(ExpenseClasses) : ExpenseClasses[k].code = code]
\* the key is the value of a distribution's expenseClassId
ec_by_id_has(v) ==
    v.t = "str" /\ \E k \in 1..Len(ExpenseClasses) : ExpenseClasses[k].id = v.id
ec_by_id(v) ==
    ExpenseClasses[CHOOSE k \in 1..Len(ExpenseClasses) : ExpenseClasses[k].id = v.id]

\* .date() of datetime.fromisoformat(...): the time of day is dropped
date_of(ts) == ts[1]

RECURSIVE fy_scan_datetimes(_, _, _)
\* the scan when periodStart and periodEnd are compared as datetimes with
\* today at midnight, without the truncation to dates
fy_scan_datetimes(fyList, k, day) ==
    IF k > Len(fyList) THEN [found |-> FALSE, fy |-> [id |-> None]]
    ELSE IF /\ \/ fyList[k].periodStart[1] < day
               \/ fyList[k].periodStart[1] = day /\ fyList[k].periodStart[2] = 0
            /\ day <= fyList[k].periodEnd[1]
         THEN [found |-> TRUE, fy |-> [id |-> fyList[k].id]]
         ELSE fy_scan_datetimes(fyList, k + 1, day)

RECURSIVE fy_scan(_, _, _)
\* get_fiscal_year, the loop over fyList from its k-th entry on
fy_scan(fyList, k, day) ==
    IF k > Len(fyList) THEN [found |-> FALSE, fy |-> [id |-> None]]
    ELSE IF date_of(fyList[k].periodStart) <= day /\ day <= date_of(fyList[k].periodEnd)
         THEN [found |-> TRUE, fy |-> [id |-> fyList[k].id]]
         ELSE fy_scan(fyList, k + 1, day)

\* pol_fund.get_fiscal_year: the first fiscal year whose range holds the day
get_fiscal_year(fyList, day) == fy_scan(fyList, 1, day)

\* fiscal_year before main_loop has assigned it
NoFiscalYear == [found |-> FALSE, fy |-> [id |-> None]]

-----------------------------------------------------------------------------
(* Lookups by human key *)

SeqMap(f(_), s) == [k \in 1..Len(s) |-> f(s[k])]

\* client.folio_get("/orders/order-lines", query poLineNumber == pol_no)
folio_get_order_lines(store, pol_no) ==
    LET ids   == SelectSeq(PolIdSeq, LAMBDA i : store[i].poLineNumber = pol_no)
        rec(i) == store[i]
    IN  [totalRecords |-> Len(ids), poLines |-> SeqMap(rec, ids)]

NoPol == Pol(None, None, FALSE, <<>>)

\* get_pol_by_line_no without its test for zero records: res["poLines"][0]
\* of an empty result raises
get_pol_by_line_no_unchecked(store, pol_no) ==
    LET res == folio_get_order_lines(store, pol_no)
    IN  IF res.totalRecords # 1 THEN [kind |-> "raise", pol |-> NoPol]
        ELSE [kind |-> "pol", pol |-> res.poLines[1]]

\* get_pol_by_line_no: None, an uncaught Exception, or the single POL
get_pol_by_line_no(store, pol_no) ==
    LET res == folio_get_order_lines(store, pol_no)
    IN  IF res.totalRecords = 0 THEN [kind |-> "None", pol |-> NoPol]
        ELSE IF res.totalRecords > 1 THEN [kind |-> "raise", pol |-> NoPol]
        ELSE [kind |-> "pol", pol |-> res.poLines[1]]

\* client.folio_get("/inventory/items", query barcode == barcode)
folio_get_items(store, barcode) ==
    LET ids   == SelectSeq(ItemIdSeq, LAMBDA i : store[i].barcode = barcode)
        rec(i) == store[i]
    IN  [totalRecords |-> Len(ids), items |-> SeqMap(rec, ids)]

NoItem == Item(None, None, None, None)

\* location-batch.get_item_by_barcode: None, or the first item of the result
get_item_by_barcode(store, barcode) ==
    LET res == folio_get_items(store, barcode)
    IN  IF res.totalRecords = 0 THEN [kind |-> "None", item |-> NoItem]
        ELSE [kind |-> "item", item |-> res.items[1]]

\* location-batch.get_item_by_barcode_safe: (num, ret_obj)
get_item_by_barcode_safe(store, barcode) ==
    LET res == folio_get_items(store, barcode)
        num == res.totalRecords
    IN  IF num = 0 THEN [num |-> num, kind |-> "None", item |-> NoItem]
        ELSE IF num = 1 THEN [num |-> num, kind |-> "item", item |-> res.items[1]]
        ELSE [num |-> num, kind |-> "list", item |-> NoItem]

\* location-batch.delete_perm_location: the popped values and the record left
delete_perm_location(rec) ==
    [old_loc_id |-> rec.permanentLocationId,
     old_loc    |-> rec.permanentLocation,
     rec        |-> [rec EXCEPT !.permanentLocationId = None, !.permanentLocation = None]]

-----------------------------------------------------------------------------
(* Remote store, output rows, engine helpers *)

\* RecordStore.overwrite: a PUT answered 204 replaces the record, any other
\* answer leaves the store as it was
overwrite(store, id, body, status) ==
    IF status = 204 THEN [store EXCEPT ![id] = body] ELSE store

\* one requests.put / requests.post call and its answer
Request(op, id, body, status) == [op |-> op, id |-> id, body |-> body, status |-> status]

\* a row of the POL scripts' DictWriter with every cell empty
EmptyRow ==
    [pol_no |-> "", code |-> "", pol_id |-> "", status_code |-> "", message |-> "",
     original_expense_code |-> "", original_expense_name |-> "",
     original_fund_distribution |-> NoCell, manual_review |-> ""]

NoRet == [status |-> 0, msg |-> "", snapshot |-> NoCell]

RECURSIVE join(_)
\* " ".join(list of strings)
join(ss) ==
    IF Len(ss) = 0 THEN ""
    ELSE IF Len(ss) = 1 THEN ss[1]
    ELSE ss[1] \o " " \o join(Tail(ss))

\* the test of the distributions when only their number is looked at
no_fund_distribution_len_only(p) == p.hasFD /\ Len(p.fundDistribution) = 0

\* pol.get("fundDistribution") is None or len(pol["fundDistribution"]) == 0
no_fund_distribution(p) == ~p.hasFD \/ Len(p.fundDistribution) = 0

\* the loop of update_expense_class without the new token
uec_reencumber_same_token(fundDistList, ecid, u) ==
    [k \in 1..Len(fundDistList) |-> [fundDistList[k] EXCEPT !.expenseClassId = ecid]]

\* update_expense_class, the loop over fundDistList: a new token and the
\* expense class on every distribution; u is the next uuid
uec_reencumber(fundDistList, ecid, u) ==
    [k \in 1..Len(fundDistList) |->
        [fundDistList[k] EXCEPT !.encumbrance = u + k - 1, !.expenseClassId = ecid]]

\* the loop of reencumber_pol with one uuid4 call made before the loop
rp_reencumber_one_uuid(fundDistList, u) ==
    [k \in 1..Len(fundDistList) |-> [fundDistList[k] EXCEPT !.encumbrance = u]]

\* reencumber_pol, the loop over fundDistList: a new token on every distribution
rp_reencumber(fundDistList, u) ==
    [k \in 1..Len(fundDistList) |-> [fundDistList[k] EXCEPT !.encumbrance = u + k - 1]]

\* pol_fund.set_pol_fund, the loop over fundDistList
pf_encumber(fundDistList, fund_code, u) ==
    [k \in 1..Len(fundDistList) |->
        [fundDistList[k] EXCEPT !.code = fund_code,
                                !.fundId = funds(fund_code).id,
                                !.encumbrance = u + k - 1]]

\* pol-fund-batch.set_pol_fund, the loop over pol["fundDistribution"]
pfb_set_code(fundDistList, fund) ==
    [k \in 1..Len(fundDistList) |-> [fundDistList[k] EXCEPT !.code = fund]]

-----------------------------------------------------------------------------
(* Initial state *)

Init ==
    /\ script \in Scripts
    /\ input \in SeqsUpTo(RowsOf(script), MaxRows)
    /\ today \in (IF script = "pol_fund" THEN Days ELSE {3})
    /\ fiscalYears = FyList
    /\ fiscal_year = NoFiscalYear
    /\ rowIdx = 0
    /\ pc = (IF script = "pol_fund" THEN "start" ELSE "loop")
    /\ polStore = InitPolStore
    /\ itemStore = InitItemStore
    /\ audit = <<>>
    /\ sent = <<>>
    /\ uuid_next = FirstUuid
    /\ pol = NoPol
    /\ my_pol = NoPol
    /\ fundDistListOrig = <<>>
    /\ exp_class_id = EcAbsent
    /\ enc_list = <<>>
    /\ ret = NoRet

frame == <<pol, my_pol, fundDistListOrig, exp_class_id, enc_list, ret>>
remote == <<polStore, itemStore>>
fixed == <<script, input, today, fiscalYears, fiscal_year>>

ResetFrame ==
    /\ pol' = NoPol
    /\ my_pol' = NoPol
    /\ fundDistListOrig' = <<>>
    /\ exp_class_id' = EcAbsent
    /\ enc_list' = <<>>
    /\ ret' = NoRet

\* an uncaught exception while the current row is processed
Crash ==
    /\ pc' = "crashed"
    /\ UNCHANGED <<audit, sent, uuid_next, frame, remote>>

\* out_csv.writerow(r); continue
WriteAndContinue(r) ==
    /\ audit' = Append(audit, r)
    /\ pc' = "loop"
    /\ UNCHANGED <<sent, uuid_next, frame, remote>>

-----------------------------------------------------------------------------
(* pol_expenseclasses.py *)

\* main_loop, from reading a row to the call of update_expense_class
EC_ReadRow ==
    /\ script = "pol_expenseclasses"
    /\ pc = "loop"
    /\ rowIdx < Len(input)
    /\ rowIdx' = rowIdx + 1
    /\ UNCHANGED fixed
    /\ LET pol_no         == input[rowIdx + 1][1]
           exp_class_code == input[rowIdx + 1][2]
           r              == get_pol_by_line_no(polStore, pol_no)
       IN  IF r.kind = "raise" THEN Crash
           ELSE IF r.kind = "None" THEN
               WriteAndContinue([EmptyRow EXCEPT
                   !.pol_no = pol_no,
                   !.message = "No POL found for line number '" \o pol_no \o "'",
                   !.manual_review = "Y"])
           ELSE IF no_fund_distribution(r.pol) THEN
               WriteAndContinue([EmptyRow EXCEPT
                   !.pol_no = pol_no,
                   !.message = "POL has 0 fund distributions",
                   !.manual_review = "Y"])
           ELSE IF ~ec_by_code_has(exp_class_code) THEN Crash
           ELSE /\ pol' = r.pol
                /\ exp_class_id' = EcDict(ec_by_code(exp_class_code).id)
                /\ my_pol' = r.pol
                /\ fundDistListOrig' = r.pol.fundDistribution
                /\ pc' = "uec_detach"
                /\ UNCHANGED <<audit, sent, uuid_next, enc_list, ret, remote>>

\* the detach of update_expense_class without the test of its status
UEC_Detach_unchecked ==
    /\ pc = "uec_detach"
    /\ \E status \in Statuses :
         LET body == [my_pol EXCEPT !.hasFD = FALSE, !.fundDistribution = <<>>]
         IN  /\ my_pol' = body
             /\ sent' = Append(sent, Request("PUT", pol.id, body, status))
             /\ polStore' = overwrite(polStore, pol.id, body, status)
             /\ ret' = ret
             /\ pc' = "uec_reattach"
    /\ UNCHANGED <<fixed, rowIdx, itemStore, audit, uuid_next, pol,
                   fundDistListOrig, exp_class_id, enc_list>>

\* update_expense_class: PUT the POL without fundDistribution
UEC_Detach ==
    /\ pc = "uec_detach"
    /\ \E status \in Statuses :
         LET body == [my_pol EXCEPT !.hasFD = FALSE, !.fundDistribution = <<>>]
         IN  /\ my_pol' = body
             /\ sent' = Append(sent, Request("PUT", pol.id, body, status))
             /\ polStore' = overwrite(polStore, pol.id, body, status)
             /\ IF status # 204
                THEN /\ ret' = [status   |-> status,
                                msg      |-> "failed to remove fund distribution: \n"
                                             \o resp_text(status),
                                snapshot |-> json_dumps(fundDistListOrig)]
                     /\ pc' = "ec_write"
                ELSE /\ ret' = ret
                     /\ pc' = "uec_reattach"
    /\ UNCHANGED <<fixed, rowIdx, itemStore, audit, uuid_next, pol,
                   fundDistListOrig, exp_class_id, enc_list>>

\* the reattach of update_expense_class when fundDistListOrig is the live list
\* and not a deep copy of it
UEC_Reattach_aliased ==
    /\ pc = "uec_reattach"
    /\ \E status \in Statuses :
         LET fundDistList == uec_reencumber(pol.fundDistribution, exp_class_id, uuid_next)
             body == [my_pol EXCEPT !.hasFD = TRUE, !.fundDistribution = fundDistList]
         IN  /\ pol' = [pol EXCEPT !.fundDistribution = fundDistList]
             /\ my_pol' = body
             /\ fundDistListOrig' = fundDistList
             /\ uuid_next' = uuid_next + Len(fundDistList)
             /\ sent' = Append(sent, Request("PUT", pol.id, body, status))
             /\ polStore' = overwrite(polStore, pol.id, body, status)
             /\ ret' = [status   |-> status,
                        msg      |-> resp_text(status),
                        snapshot |-> json_dumps(fundDistList)]
             /\ pc' = "ec_write"
    /\ UNCHANGED <<fixed, rowIdx, itemStore, audit, exp_class_id, enc_list>>

\* update_expense_class: new tokens and expense class, PUT the POL with them
UEC_Reattach ==
    /\ pc = "uec_reattach"
    /\ \E status \in Statuses :
         LET fundDistList == uec_reencumber(pol.fundDistribution, exp_class_id, uuid_next)
             body == [my_pol EXCEPT !.hasFD = TRUE, !.fundDistribution = fundDistList]
         IN  /\ pol' = [pol EXCEPT !.fundDistribution = fundDistList]
             /\ my_pol' = body
             /\ uuid_next' = uuid_next + Len(fundDistList)
             /\ sent' = Append(sent, Request("PUT", pol.id, body, status))
             /\ polStore' = overwrite(polStore, pol.id, body, status)
             /\ ret' = [status   |-> status,
                        msg      |-> resp_text(status),
                        snapshot |-> json_dumps(fundDistListOrig)]
             /\ pc' = "ec_write"
    /\ UNCHANGED <<fixed, rowIdx, itemStore, audit, fundDistListOrig, exp_class_id, enc_list>>

\* main_loop, after update_expense_class returned: the output row
EC_WriteRow ==
    /\ pc = "ec_write"
    /\ UNCHANGED <<fixed, rowIdx, remote, sent, uuid_next>>
    /\ LET orig     == json_loads(ret.snapshot)
           codeOf(d) == ec_by_id(d.expenseClassId).code
           nameOf(d) == ec_by_id(d.expenseClassId).name
       IN  IF \E k \in 1..Len(orig) : ~ec_by_id_has(orig[k].expenseClassId)
           THEN /\ pc' = "crashed"
                /\ UNCHANGED <<audit, frame>>
           ELSE /\ audit' = Append(audit, [EmptyRow EXCEPT
                       !.pol_no = input[rowIdx][1],
                       !.code = input[rowIdx][2],
                       !.pol_id = pol.id,
                       !.status_code = str(ret.status),
                       !.message = ret.msg,
                       !.original_expense_code = join(SeqMap(codeOf, orig)),
                       !.original_expense_name = join(SeqMap(nameOf, orig)),
                       !.manual_review = "N"])
                /\ pc' = "loop"
                /\ ResetFrame

\* reencumber_pol called on the POL of the next row, when the engine works on
\* the first distribution only
RP_Call_first_only ==
    /\ script = "reencumber_pol"
    /\ pc = "loop"
    /\ rowIdx < Len(input)
    /\ rowIdx' = rowIdx + 1
    /\ UNCHANGED fixed
    /\ LET r == get_pol_by_line_no(polStore, input[rowIdx + 1][1])
       IN  IF r.kind # "pol"
           THEN /\ pc' = "loop"
                /\ UNCHANGED <<audit, sent, uuid_next, frame, remote>>
           ELSE IF ~r.pol.hasFD THEN Crash
           ELSE /\ pol' = [r.pol EXCEPT !.fundDistribution =
                              IF Len(@) > 1 THEN <<@[1]>> ELSE @]
                /\ my_pol' = r.pol
                /\ fundDistListOrig' = r.pol.fundDistribution
                /\ pc' = "rp_detach"
                /\ UNCHANGED <<audit, sent, uuid_next, exp_class_id, enc_list, ret, remote>>

\* reencumber_pol called on the POL of the next row (main_loop does not call it)
RP_Call ==
    /\ script = "reencumber_pol"
    /\ pc = "loop"
    /\ rowIdx < Len(input)
    /\ rowIdx' = rowIdx + 1
    /\ UNCHANGED fixed
    /\ LET r == get_pol_by_line_no(polStore, input[rowIdx + 1][1])
       IN  IF r.kind # "pol"
           THEN /\ pc' = "loop"
                /\ UNCHANGED <<audit, sent, uuid_next, frame, remote>>
           ELSE IF ~r.pol.hasFD THEN Crash
           ELSE /\ pol' = r.pol
                /\ my_pol' = r.pol
                /\ fundDistListOrig' = r.pol.fundDistribution
                /\ pc' = "rp_detach"
                /\ UNCHANGED <<audit, sent, uuid_next, exp_class_id, enc_list, ret, remote>>

\* the detach of reencumber_pol without the test of its status
RP_Detach_unchecked ==
    /\ pc = "rp_detach"
    /\ \E status \in Statuses :
         LET body == [my_pol EXCEPT !.hasFD = FALSE, !.fundDistribution = <<>>]
         IN  /\ my_pol' = body
             /\ sent' = Append(sent, Request("PUT", pol.id, body, status))
             /\ polStore' = overwrite(polStore, pol.id, body, status)
             /\ ret' = ret
             /\ pc' = "rp_reattach"
    /\ UNCHANGED <<fixed, rowIdx, itemStore, audit, uuid_next, pol,
                   fundDistListOrig, exp_class_id, enc_list>>

\* reencumber_pol: PUT the POL without fundDistribution
RP_Detach ==
    /\ pc = "rp_detach"
    /\ \E status \in Statuses :
         LET body == [my_pol EXCEPT !.hasFD = FALSE, !.fundDistribution = <<>>]
         IN  /\ my_pol' = body
             /\ sent' = Append(sent, Request("PUT", pol.id, body, status))
             /\ polStore' = overwrite(polStore, pol.id, body, status)
             /\ IF status # 204
                THEN /\ ret' = [status   |-> status,
                                msg      |-> "failed to remove fund distribution: \n"
                                             \o resp_text(status),
                                snapshot |-> json_dumps(fundDistListOrig)]
                     /\ pc' = "rp_return"
                ELSE /\ ret' = ret
                     /\ pc' = "rp_reattach"
    /\ UNCHANGED <<fixed, rowIdx, itemStore, audit, uuid_next, pol,
                   fundDistListOrig, exp_class_id, enc_list>>

\* the reattach of reencumber_pol with a compensation: after a rejected
\* reattach the original distributions are PUT again
RP_Reattach_rollback ==
    /\ pc = "rp_reattach"
    /\ \E status \in Statuses, again \in Statuses :
         LET fundDistList == rp_reencumber(pol.fundDistribution, uuid_next)
             body == [my_pol EXCEPT !.hasFD = TRUE, !.fundDistribution = fundDistList]
             back == [my_pol EXCEPT !.hasFD = TRUE, !.fundDistribution = fundDistListOrig]
             put1 == Append(sent, Request("PUT", pol.id, body, status))
             st1  == overwrite(polStore, pol.id, body, status)
         IN  /\ pol' = [pol EXCEPT !.fundDistribution = fundDistList]
             /\ my_pol' = body
             /\ uuid_next' = uuid_next + Len(fundDistList)
             /\ sent' = IF status = 204 THEN put1
                        ELSE Append(put1, Request("PUT", pol.id, back, again))
             /\ polStore' = IF status = 204 THEN st1
                            ELSE overwrite(st1, pol.id, back, again)
             /\ ret' = [status   |-> status,
                        msg      |-> resp_text(status),
                        snapshot |-> json_dumps(fundDistListOrig)]
             /\ pc' = "rp_return"
    /\ UNCHANGED <<fixed, rowIdx, itemStore, audit, fundDistListOrig, exp_class_id, enc_list>>

\* reencumber_pol: new tokens, PUT the POL with the distributions
RP_Reattach ==
    /\ pc = "rp_reattach"
    /\ \E status \in Statuses :
         LET fundDistList == rp_reencumber(pol.fundDistribution, uuid_next)
             body == [my_pol EXCEPT !.hasFD = TRUE, !.fundDistribution = fundDistList]
         IN  /\ pol' = [pol EXCEPT !.fundDistribution = fundDistList]
             /\ my_pol' = body
             /\ uuid_next' = uuid_next + Len(fundDistList)
             /\ sent' = Append(sent, Request("PUT", pol.id, body, status))
             /\ polStore' = overwrite(polStore, pol.id, body, status)
             /\ ret' = [status   |-> status,
                        msg      |-> resp_text(status),
                        snapshot |-> json_dumps(fundDistListOrig)]
             /\ pc' = "rp_return"
    /\ UNCHANGED <<fixed, rowIdx, itemStore, audit, fundDistListOrig, exp_class_id, enc_list>>

\* the caller of reencumber_pol takes the returned tuple
RP_Return ==
    /\ pc = "rp_return"
    /\ pc' = "loop"
    /\ ResetFrame
    /\ UNCHANGED <<fixed, rowIdx, remote, audit, sent, uuid_next>>

-----------------------------------------------------------------------------
(* pol_fund.py *)

\* main_loop before its loop: get_funds, get_fiscal_year, writeheader
PF_Start ==
    /\ script = "pol_fund"
    /\ pc = "start"
    /\ fiscal_year' = get_fiscal_year(fiscalYears, today)
    /\ pc' = "loop"
    /\ UNCHANGED <<script, input, today, fiscalYears, rowIdx, remote, audit, sent,
                   uuid_next, frame>>

\* number of transactions the unreleased-encumbrance query may return
EncCounts == 0..2

\* main_loop up to the unreleased-encumbrance query when only an empty enc_list
\* is rejected
PF_ReadRow_empty_only ==
    /\ script = "pol_fund"
    /\ pc = "loop"
    /\ rowIdx < Len(input)
    /\ rowIdx' = rowIdx + 1
    /\ UNCHANGED fixed
    /\ LET pol_no      == input[rowIdx + 1][1]
           fund        == input[rowIdx + 1][2]
           r           == get_pol_by_line_no(polStore, pol_no)
       IN  IF ~funds_has(fund) THEN
               WriteAndContinue([EmptyRow EXCEPT
                   !.pol_no = pol_no,
                   !.code = fund,
                   !.message = "fund code does not exist",
                   !.manual_review = "Y"])
           ELSE IF r.kind = "raise" THEN Crash
           ELSE IF r.kind = "None" THEN
               WriteAndContinue([EmptyRow EXCEPT
                   !.pol_no = pol_no,
                   !.code = fund,
                   !.message = "No POL found for line number '" \o pol_no \o "'",
                   !.manual_review = "Y"])
           ELSE IF no_fund_distribution(r.pol) THEN
               WriteAndContinue([EmptyRow EXCEPT
                   !.pol_no = pol_no,
                   !.message = "POL has 0 fund distributions",
                   !.manual_review = "Y"])
           ELSE IF Len(r.pol.fundDistribution) > 1 THEN
               WriteAndContinue([EmptyRow EXCEPT
                   !.pol_no = pol_no,
                   !.message = "POL has " \o ToString(Len(r.pol.fundDistribution))
                               \o " fund distributions",
                   !.manual_review = "Y"])
           ELSE IF ~fiscal_year.found THEN Crash
           ELSE \E n \in EncCounts :
                  LET found == [k \in 1..n |-> k]
                  IN  /\ enc_list' = found
                      /\ IF Len(found) = 0 THEN
                             /\ audit' = Append(audit, [EmptyRow EXCEPT
                                    !.pol_no = pol_no,
                                    !.message = "POL has " \o ToString(Len(found))
                                                \o " unreleased encumbrances",
                                    !.manual_review = "Y"])
                             /\ pc' = "loop"
                             /\ UNCHANGED <<sent, uuid_next, pol, my_pol, fundDistListOrig,
                                            exp_class_id, ret, remote>>
                         ELSE
                             /\ pol' = r.pol
                             /\ pc' = "pf_release"
                             /\ UNCHANGED <<audit, sent, uuid_next, my_pol, fundDistListOrig,
                                            exp_class_id, ret, remote>>

\* main_loop, from reading a row to the unreleased-encumbrance query
PF_ReadRow ==
    /\ script = "pol_fund"
    /\ pc = "loop"
    /\ rowIdx < Len(input)
    /\ rowIdx' = rowIdx + 1
    /\ UNCHANGED fixed
    /\ LET pol_no      == input[rowIdx + 1][1]
           fund        == input[rowIdx + 1][2]
           r           == get_pol_by_line_no(polStore, pol_no)
       IN  IF ~funds_has(fund) THEN
               WriteAndContinue([EmptyRow EXCEPT
                   !.pol_no = pol_no,
                   !.code = fund,
                   !.message = "fund code does not exist",
                   !.manual_review = "Y"])
           ELSE IF r.kind = "raise" THEN Crash
           ELSE IF r.kind = "None" THEN
               WriteAndContinue([EmptyRow EXCEPT
                   !.pol_no = pol_no,
                   !.code = fund,
                   !.message = "No POL found for line number '" \o pol_no \o "'",
                   !.manual_review = "Y"])
           ELSE IF no_fund_distribution(r.pol) THEN
               WriteAndContinue([EmptyRow EXCEPT
                   !.pol_no = pol_no,
                   !.message = "POL has 0 fund distributions",
                   !.manual_review = "Y"])
           ELSE IF Len(r.pol.fundDistribution) > 1 THEN
               WriteAndContinue([EmptyRow EXCEPT
                   !.pol_no = pol_no,
                   !.message = "POL has " \o ToString(Len(r.pol.fundDistribution))
                               \o " fund distributions",
                   !.manual_review = "Y"])
           ELSE IF ~fiscal_year.found THEN Crash
           ELSE \E n \in EncCounts :
                  LET found == [k \in 1..n |-> k]
                  IN  /\ enc_list' = found
                      /\ IF Len(found) # 1 THEN
                             /\ audit' = Append(audit, [EmptyRow EXCEPT
                                    !.pol_no = pol_no,
                                    !.message = "POL has " \o ToString(Len(found))
                                                \o " unreleased encumbrances",
                                    !.manual_review = "Y"])
                             /\ pc' = "loop"
                             /\ UNCHANGED <<sent, uuid_next, pol, my_pol, fundDistListOrig,
                                            exp_class_id, ret, remote>>
                         ELSE
                             /\ pol' = r.pol
                             /\ pc' = "pf_release"
                             /\ UNCHANGED <<audit, sent, uuid_next, my_pol, fundDistListOrig,
                                            exp_class_id, ret, remote>>

\* main_loop, the loop over enc_list (one encumbrance): POST the release; the
\* continue after a failed release continues this inner loop, which then ends
PF_Release ==
    /\ pc = "pf_release"
    /\ \E status \in Statuses :
         /\ sent' = Append(sent, Request("POST", pol.id, NoPol, status))
         /\ audit' = IF status # 204
                     THEN Append(audit, [EmptyRow EXCEPT
                              !.pol_no = input[rowIdx][1],
                              !.status_code = str(status),
                              !.message = "failed to release encumbrance: "
                                          \o "\"" \o resp_text(status) \o "\"",
                              !.manual_review = "Y"])
                     ELSE audit
    /\ pc' = "pf_set"
    /\ UNCHANGED <<fixed, rowIdx, remote, uuid_next, frame>>

\* set_pol_fund when fundDistListOrig is the live list and not a deep copy
PF_SetPolFund_aliased ==
    /\ pc = "pf_set"
    /\ \E status \in Statuses :
         LET fundDistList == pf_encumber(pol.fundDistribution, input[rowIdx][2], uuid_next)
             body == [pol EXCEPT !.fundDistribution = fundDistList]
         IN  /\ fundDistListOrig' = fundDistList
             /\ pol' = body
             /\ uuid_next' = uuid_next + Len(fundDistList)
             /\ sent' = Append(sent, Request("PUT", pol.id, body, status))
             /\ polStore' = overwrite(polStore, pol.id, body, status)
             /\ ret' = [status   |-> status,
                        msg      |-> resp_text(status),
                        snapshot |-> json_dumps(fundDistList)]
             /\ pc' = "pf_write"
    /\ UNCHANGED <<fixed, rowIdx, itemStore, audit, my_pol, exp_class_id, enc_list>>

\* set_pol_fund: new fund and tokens on the live distributions, PUT the POL
PF_SetPolFund ==
    /\ pc = "pf_set"
    /\ \E status \in Statuses :
         LET fundDistList == pf_encumber(pol.fundDistribution, input[rowIdx][2], uuid_next)
             body == [pol EXCEPT !.fundDistribution = fundDistList]
         IN  /\ fundDistListOrig' = pol.fundDistribution
             /\ pol' = body
             /\ uuid_next' = uuid_next + Len(fundDistList)
             /\ sent' = Append(sent, Request("PUT", pol.id, body, status))
             /\ polStore' = overwrite(polStore, pol.id, body, status)
             /\ ret' = [status   |-> status,
                        msg      |-> resp_text(status),
                        snapshot |-> json_dumps(pol.fundDistribution)]
             /\ pc' = "pf_write"
    /\ UNCHANGED <<fixed, rowIdx, itemStore, audit, my_pol, exp_class_id, enc_list>>

\* main_loop, after set_pol_fund returned: the output row
PF_WriteRow ==
    /\ pc = "pf_write"
    /\ audit' = Append(audit, [EmptyRow EXCEPT
           !.pol_no = input[rowIdx][1],
           !.code = input[rowIdx][2],
           !.pol_id = pol.id,
           !.status_code = str(ret.status),
           !.message = ret.msg,
           !.original_fund_distribution = ret.snapshot,
           !.manual_review = "N"])
    /\ pc' = "loop"
    /\ ResetFrame
    /\ UNCHANGED <<fixed, rowIdx, remote, sent, uuid_next>>

-----------------------------------------------------------------------------
(* pol-fund-batch.py *)

\* main_loop, one row: lookup, set_pol_fund (codes changed in place, PUT), output row
PFB_Row ==
    /\ script = "pol-fund-batch"
    /\ pc = "loop"
    /\ rowIdx < Len(input)
    /\ rowIdx' = rowIdx + 1
    /\ UNCHANGED fixed
    /\ LET pol_no == input[rowIdx + 1][1]
           fund   == input[rowIdx + 1][2]
           r      == get_pol_by_line_no(polStore, pol_no)
       IN  IF r.kind = "raise" THEN Crash
           ELSE IF r.kind = "None" THEN
               WriteAndContinue([EmptyRow EXCEPT
                   !.pol_no = pol_no,
                   !.code = fund,
                   !.message = "No POL found for line number '" \o pol_no \o "'"])
           ELSE IF ~r.pol.hasFD THEN Crash
           ELSE \E status \in Statuses :
                  LET body == [r.pol EXCEPT
                                  !.fundDistribution = pfb_set_code(@, fund)]
                  IN  /\ sent' = Append(sent, Request("PUT", body.id, body, status))
                      /\ polStore' = overwrite(polStore, body.id, body, status)
                      /\ audit' = Append(audit, [EmptyRow EXCEPT
                             !.pol_no = pol_no,
                             !.code = fund,
                             !.pol_id = body.id,
                             !.status_code = str(status),
                             !.message = resp_text(status)])
                      /\ pc' = "loop"
                      /\ UNCHANGED <<itemStore, uuid_next, frame>>

-----------------------------------------------------------------------------
(* location-batch.py *)

\* Python truth value of a string or None
truthy(v) == v # None /\ v # ""

\* csv's rendering of a string or None
cell(v) == IF v = None THEN "" ELSE v

\* put_item: PUT the item, with the store's answer
PutItem(item, status) ==
    /\ sent' = Append(sent, Request("PUT", item.id, item, status))
    /\ itemStore' = overwrite(itemStore, item.id, item, status)

\* delete_location_loop, one row
DL_Row ==
    /\ script = "delete_location_loop"
    /\ pc = "loop"
    /\ rowIdx < Len(input)
    /\ rowIdx' = rowIdx + 1
    /\ pc' = "loop"
    /\ UNCHANGED <<fixed, polStore, uuid_next, frame>>
    /\ LET barcode == input[rowIdx + 1][1]
           r       == get_item_by_barcode(itemStore, barcode)
           d       == delete_perm_location(r.item)
       IN  IF r.kind = "None" THEN
               /\ audit' = Append(audit,
                      [barcode |-> barcode, status_code |-> str(0), old_loc_id |-> "",
                       old_loc |-> "", msg |-> "No item matching barcode " \o barcode])
               /\ UNCHANGED <<sent, itemStore>>
           ELSE IF ~truthy(d.old_loc_id) /\ ~truthy(d.old_loc) THEN
               /\ audit' = Append(audit,
                      [barcode |-> barcode, status_code |-> str(0),
                       old_loc_id |-> cell(d.old_loc_id), old_loc |-> "",
                       msg |-> "Item had no permanentLocation"])
               /\ UNCHANGED <<sent, itemStore>>
           ELSE \E status \in Statuses :
                  /\ PutItem(d.rec, status)
                  /\ audit' = Append(audit,
                         [barcode |-> barcode, status_code |-> str(status),
                          old_loc_id |-> cell(d.old_loc_id),
                          old_loc |-> IF truthy(d.old_loc) THEN d.old_loc ELSE "",
                          msg |-> resp_text(status)])

\* delete_location_loop_safe, one row; old_loc is the tuple delete_perm_location
\* returns, and a tuple of two is true whatever it holds
DLS_Row ==
    /\ script = "delete_location_loop_safe"
    /\ pc = "loop"
    /\ rowIdx < Len(input)
    /\ rowIdx' = rowIdx + 1
    /\ pc' = "loop"
    /\ UNCHANGED <<fixed, polStore, uuid_next, frame>>
    /\ LET barcode == input[rowIdx + 1][1]
           r       == get_item_by_barcode_safe(itemStore, barcode)
           d       == delete_perm_location(r.item)
           old_loc == <<d.old_loc_id, d.old_loc>>
       IN  IF r.num = 0 THEN
               /\ audit' = Append(audit,
                      [barcode |-> barcode, status_code |-> str(0),
                       msg |-> "No item matching barcode " \o barcode])
               /\ UNCHANGED <<sent, itemStore>>
           ELSE IF r.num > 1 THEN
               /\ audit' = Append(audit,
                      [barcode |-> barcode, status_code |-> str(0),
                       msg |-> ToString(r.num) \o " items matched barcode " \o barcode])
               /\ UNCHANGED <<sent, itemStore>>
           ELSE IF Len(old_loc) = 0 THEN
               /\ audit' = Append(audit,
                      [barcode |-> barcode, status_code |-> str(0),
                       msg |-> "Item had no permanentLocation"])
               /\ UNCHANGED <<sent, itemStore>>
           ELSE \E status \in Statuses :
                  /\ PutItem(d.rec, status)
                  /\ audit' = Append(audit,
                         [barcode |-> barcode, status_code |-> str(status),
                          msg |-> resp_text(status)])

-----------------------------------------------------------------------------
(* The run *)

\* the for loop over in_csv is exhausted: the script returns
Finish ==
    /\ pc = "loop"
    /\ rowIdx = Len(input)
    /\ pc' = "done"
    /\ UNCHANGED <<fixed, rowIdx, remote, audit, sent, uuid_next, frame>>

Next ==
    \/ EC_ReadRow
    \/ UEC_Detach
    \/ UEC_Reattach
    \/ EC_WriteRow
    \/ RP_Call
    \/ RP_Detach
    \/ RP_Reattach
    \/ RP_Return
    \/ PF_Start
    \/ PF_ReadRow
    \/ PF_Release
    \/ PF_SetPolFund
    \/ PF_WriteRow
    \/ PFB_Row
    \/ DL_Row
    \/ DLS_Row
    \/ Finish

Spec == Init /\ [][Next]_vars

-----------------------------------------------------------------------------
(* get_fiscal_year on lists of fiscal years and days drawn from small sets *)

\* the days a period may start or end on, at midnight or at 05:00
Timestamps == {2, 3} \X {0, 5}
FyIds == <<"fy1", "fy2", "fy3", "fy4">>
FyDays == 1..4

\* the lists of n fiscal years over Timestamps
FyLists(n) ==
    {[k \in 1..n |-> [id |-> FyIds[k], periodStart |-> p[k][1], periodEnd |-> p[k][2]]] :
        p \in [1..n -> Timestamps \X Timestamps]}

InitFY ==
    /\ script = "pol_fund"
    /\ input = <<>>
    /\ today \in FyDays
    /\ fiscalYears \in UNION {FyLists(n) : n \in 0..MaxFys}
    /\ fiscal_year = NoFiscalYear
    /\ rowIdx = 0
    /\ pc = "start"
    /\ polStore = InitPolStore
    /\ itemStore = InitItemStore
    /\ audit = <<>>
    /\ sent = <<>>
    /\ uuid_next = FirstUuid
    /\ pol = NoPol
    /\ my_pol = NoPol
    /\ fundDistListOrig = <<>>
    /\ exp_class_id = EcAbsent
    /\ enc_list = <<>>
    /\ ret = NoRet

NextFY == PF_Start

SpecFY == InitFY /\ [][NextFY]_vars

\* the for loop takes the next row whenever there is one, and every step of a
\* row returns: the script keeps running until it returns or an exception ends it
FairSpec == Spec /\ WF_vars(Next)

-----------------------------------------------------------------------------
(* Vocabulary of the properties *)

\* the scripts whose main_loop looks a POL up by line number
MainLoopScripts == {"pol_expenseclasses", "pol_fund", "pol-fund-batch"}

LastSent == sent[Len(sent)]

\* the engine has returned to its caller and the caller has not yet acted
Returned == pc \in {"ec_write", "rp_return", "pf_write"}

\* row i of the input is no longer being processed
RowOver(i) == i < rowIdx \/ (i = rowIdx /\ pc \in {"loop", "done", "crashed"})

\* number of order lines the store holds for a line number (line numbers never change)
Matches(pol_no) == folio_get_order_lines(InitPolStore, pol_no).totalRecords

NotFoundMessage(pol_no) == "No POL found for line number '" \o pol_no \o "'"

\* the main_loop of the script reaches the lookup for this row
LookupDone(row) == script = "pol_fund" => funds_has(row[2])

-----------------------------------------------------------------------------
(* C1 *)

\* C1: in update_expense_class and reencumber_pol, a detach PUT answered with
\* a status other than 204 makes the function return at once with that status
\* and the original snapshot: that PUT is the only one issued, no token or
\* expense class is put on a distribution, the remote POL is as before the
\* call, and the caller's next step issues no request either.
C1_DetachFailureReturnsAtOnce ==
    [][ /\ (pc \in {"uec_detach", "rp_detach"}
            /\ Len(sent') > Len(sent) /\ sent'[Len(sent')].status # 204)
           => /\ Len(sent') = Len(sent) + 1
              /\ ~sent'[Len(sent')].body.hasFD
              /\ pc' \in {"ec_write", "rp_return"}
              /\ ret'.status = sent'[Len(sent')].status
              /\ ret'.snapshot = json_dumps(pol.fundDistribution)
              /\ pol' = pol
              /\ uuid_next' = uuid_next
              /\ polStore' = polStore
              /\ polStore[pol.id].fundDistribution = pol.fundDistribution
        /\ (pc \in {"ec_write", "rp_return"} /\ ret.status # 204
            /\ Len(sent) > 0 /\ ~LastSent.body.hasFD)
           => sent' = sent /\ polStore' = polStore
      ]_vars

C1_Witness ==
    /\ pc \in {"ec_write", "rp_return"}
    /\ ret.status = 500
    /\ ret.msg = "failed to remove fund distribution: \n" \o resp_text(500)
    /\ Len(sent) = 1
    /\ ~LastSent.body.hasFD
    /\ polStore = InitPolStore

-----------------------------------------------------------------------------
(* C2 *)

\* the row main_loop wrote after the engine's last PUT was rejected
RejectedRow(r) == r.pol_id # "" /\ r.status_code = "500" /\ r.message = resp_text(500)

\* C2: a row whose final PUT was rejected after an earlier step changed the
\* remote state carries the rejection's message and manual_review = Y, and
\* manual_review = N is written only for rows whose remote writes all succeeded.
C2_RejectedRowFlagged ==
    script \in {"pol_expenseclasses", "pol_fund"} =>
        \A j \in 1..Len(audit) :
            /\ RejectedRow(audit[j]) => audit[j].manual_review = "Y"
            /\ audit[j].manual_review = "N" => audit[j].status_code = "204"

-----------------------------------------------------------------------------
(* C3 *)

\* the remote POL the engine worked on, and the distributions of the snapshot
RemotePol == polStore[pol.id]
Snapshot == json_loads(ret.snapshot)

\* (a) success: the remote distribution carries the change and a token that
\* differs from the original one
EndChanged ==
    /\ ret.status = 204
    /\ RemotePol.hasFD
    /\ Len(RemotePol.fundDistribution) = 1
    /\ RemotePol.fundDistribution[1].encumbrance # Snapshot[1].encumbrance
    /\ IF script = "pol_fund"
       THEN RemotePol.fundDistribution[1].code = input[rowIdx][2]
       ELSE RemotePol.fundDistribution[1].expenseClassId = exp_class_id

\* (b) failure: the snapshot is returned and the remote record is as it was
EndUnmodified ==
    /\ ret.status # 204
    /\ RemotePol.hasFD
    /\ RemotePol.fundDistribution = Snapshot
    /\ ret.snapshot = json_dumps(fundDistListOrig)

\* (c) the detach was accepted and the reattach rejected: the remote POL has
\* lost its fund distribution and the snapshot is returned with the reattach's answer
EndStripped ==
    /\ script = "pol_expenseclasses"
    /\ ret.status # 204
    /\ ret.msg = resp_text(ret.status)
    /\ ret.snapshot = json_dumps(fundDistListOrig)
    /\ ~RemotePol.hasFD
    /\ Len(sent) >= 2
    /\ sent[Len(sent) - 1].status = 204 /\ ~sent[Len(sent) - 1].body.hasFD
    /\ LastSent.status = ret.status /\ LastSent.body.hasFD

SingleDistributionReturn ==
    /\ pc \in {"ec_write", "pf_write"}
    /\ Len(Snapshot) = 1

\* C3 as stated: update_expense_class and set_pol_fund, on a POL with one
\* fund distribution, end either in (a) or in (b), and in no other state.
C3_TwoEndStates ==
    SingleDistributionReturn => (EndChanged \/ EndUnmodified)

\* C3 amended: they end in exactly one of (a), (b) and (c).
C3_ThreeEndStates ==
    SingleDistributionReturn =>
        /\ EndChanged \/ EndUnmodified \/ EndStripped
        /\ ~(EndChanged /\ EndUnmodified)
        /\ ~(EndChanged /\ EndStripped)
        /\ ~(EndUnmodified /\ EndStripped)

C3_Witness ==
    /\ SingleDistributionReturn
    /\ script = "pol_expenseclasses"
    /\ EndChanged
    /\ RemotePol.fundDistribution[1].encumbrance >= FirstUuid

-----------------------------------------------------------------------------
(* C4 *)

\* C4: after main_loop has consumed k rows the audit log holds exactly k
\* rows, the i-th for the i-th input row.
C4_OneAuditRowPerInputRow ==
    (script \in MainLoopScripts /\ pc \in {"loop", "done"}) =>
        /\ Len(audit) = rowIdx
        /\ \A i \in 1..Len(audit) : i <= rowIdx => audit[i].pol_no = input[i][1]

-----------------------------------------------------------------------------
(* C5 *)

\* C5: no single row stops the batch: main_loop never ends on an exception,
\* so that the run goes on to the end of the input.
C5_NoRowStopsTheBatch ==
    script \in MainLoopScripts => pc # "crashed"

-----------------------------------------------------------------------------
(* C6 *)

\* C6: a row whose line number matches more than one POL gets an audit row
\* flagged for manual review, causes no remote write, and the loop goes on.
C6_AmbiguousRowRecorded ==
    script \in MainLoopScripts =>
        \A i \in 1..rowIdx :
            (RowOver(i) /\ LookupDone(input[i]) /\ Matches(input[i][1]) > 1) =>
                /\ ~(pc = "crashed" /\ i = rowIdx)
                /\ \E j \in 1..Len(audit) :
                       audit[j].pol_no = input[i][1] /\ audit[j].manual_review = "Y"
                /\ \A k \in 1..Len(sent) :
                       InitPolStore[sent[k].id].poLineNumber # input[i][1]

-----------------------------------------------------------------------------
(* C7 *)

\* number of records the store holds for the human key of the record with this id
KeyMatches(id) ==
    IF script \in ItemScripts
    THEN folio_get_items(InitItemStore, InitItemStore[id].barcode).totalRecords
    ELSE folio_get_order_lines(InitPolStore, InitPolStore[id].poLineNumber).totalRecords

\* C7: a record taken from a lookup that matched more than one record is
\* never mutated or PUT.
C7_NoCandidateIsPut ==
    \A k \in 1..Len(sent) : sent[k].op = "PUT" => KeyMatches(sent[k].id) = 1

-----------------------------------------------------------------------------
(* C8 *)

\* the row a loop writes for a key without a match
IsNotFoundRow(r, key) ==
    IF script \in ItemScripts
    THEN r.barcode = key /\ r.status_code = "0"
         /\ r.msg = "No item matching barcode " \o key
    ELSE r.pol_no = key /\ r.pol_id = "" /\ r.message = NotFoundMessage(key)

ZeroMatches(key) ==
    IF script \in ItemScripts
    THEN folio_get_items(itemStore, key).totalRecords = 0
    ELSE folio_get_order_lines(polStore, key).totalRecords = 0

\* C8: a lookup that matches zero records raises nothing: the loop writes the
\* not-found row for the key, issues no request, and is back at the top of
\* the loop with the next row to read.
C8_ZeroMatchNeverRaises ==
    [][ (/\ script # "reencumber_pol"
         /\ pc = "loop" /\ rowIdx < Len(input)
         /\ LookupDone(input[rowIdx + 1])
         /\ ZeroMatches(input[rowIdx + 1][1]))
        => /\ pc' = "loop"
           /\ rowIdx' = rowIdx + 1
           /\ Len(audit') = Len(audit) + 1
           /\ IsNotFoundRow(audit'[Len(audit')], input[rowIdx + 1][1])
           /\ sent' = sent
           /\ polStore' = polStore /\ itemStore' = itemStore
      ]_vars

C8_Witness ==
    /\ script \in MainLoopScripts
    /\ rowIdx = 2
    /\ Len(audit) = 2
    /\ input[1][1] = "POL-9999-1"
    /\ audit[1].message = NotFoundMessage("POL-9999-1")
    /\ audit[2].pol_no = input[2][1]

-----------------------------------------------------------------------------
(* C9 *)

\* C9: a row whose line number has no match, whatever its column 1, gets an
\* audit row with the "No POL found" message and manual_review = Y, and no
\* request is issued for it.
C9_NoPolFoundRow ==
    script \in MainLoopScripts =>
        \A i \in 1..rowIdx :
            (RowOver(i) /\ Matches(input[i][1]) = 0) =>
                /\ \E j \in 1..Len(audit) :
                       /\ audit[j].pol_no = input[i][1]
                       /\ audit[j].message = NotFoundMessage(input[i][1])
                       /\ audit[j].manual_review = "Y"
                /\ \A k \in 1..Len(sent) :
                       InitPolStore[sent[k].id].poLineNumber # input[i][1]

-----------------------------------------------------------------------------
(* C10 *)

\* C10: a POL whose fundDistribution is absent or empty is never passed to
\* the mutation step, and no PUT or POST is issued for it.
C10_NoMutationWithoutDistribution ==
    /\ script \in {"pol_fund", "pol-fund-batch"} =>
           \A k \in 1..Len(sent) :
               sent[k].op = "PUT" => ~no_fund_distribution(sent[k].body)
    /\ (script \in {"pol_expenseclasses", "pol_fund"}
        /\ pc \in {"uec_detach", "pf_release", "pf_set"}) => ~no_fund_distribution(pol)

-----------------------------------------------------------------------------
(* C11 *)

\* column 1 of the row names no entry of the table read at the start of the run
UnknownCode(row) ==
    IF script = "pol_fund" THEN ~funds_has(row[2]) ELSE ~ec_by_code_has(row[2])

\* C11: a row whose requested fund or expense-class code is not in the lookup
\* table gets an audit row flagged for manual review, no request is issued for
\* it, and the loop goes on.
C11_UnknownCodeRecorded ==
    script \in {"pol_expenseclasses", "pol_fund"} =>
        \A i \in 1..rowIdx :
            (RowOver(i) /\ UnknownCode(input[i])) =>
                /\ ~(pc = "crashed" /\ i = rowIdx)
                /\ \E j \in 1..Len(audit) :
                       audit[j].pol_no = input[i][1] /\ audit[j].manual_review = "Y"
                /\ (\A m \in 1..rowIdx : UnknownCode(input[m])) => sent = <<>>

-----------------------------------------------------------------------------
(* C12 *)

\* the scripts whose engine detaches and reattaches
DetachScripts == {"pol_expenseclasses", "reencumber_pol"}

IsDetach(q) == q.op = "PUT" /\ ~q.body.hasFD
IsReattach(q) == q.op = "PUT" /\ q.body.hasFD

\* C12: in update_expense_class and reencumber_pol the PUT that carries the
\* fundDistribution is issued only right after the PUT without it, for the
\* same POL, was answered 204.
C12_ReattachOnlyAfterDetach ==
    script \in DetachScripts =>
        /\ \A k \in 1..Len(sent) :
               IsReattach(sent[k]) =>
                   /\ k > 1
                   /\ IsDetach(sent[k - 1])
                   /\ sent[k - 1].id = sent[k].id
                   /\ sent[k - 1].status = 204
        /\ pc \in {"uec_reattach", "rp_reattach"} =>
               /\ Len(sent) > 0
               /\ IsDetach(LastSent) /\ LastSent.status = 204 /\ LastSent.id = pol.id

C12_Witness ==
    /\ script = "reencumber_pol"
    /\ Len(sent) = 2
    /\ IsDetach(sent[1]) /\ sent[1].status = 204
    /\ IsReattach(sent[2]) /\ sent[2].id = sent[1].id

-----------------------------------------------------------------------------
(* C13 *)

\* C13: update_expense_class, reencumber_pol and pol_fund.set_pol_fund return
\* as snapshot the fundDistribution the POL had on entry, whatever was changed
\* in place on the live list, and after an accepted detach the status and the
\* message they return are those of the reattach PUT.
C13_SnapshotIsEntryState ==
    [][ /\ (pc = "loop" /\ pc' \in {"uec_detach", "rp_detach"})
           => /\ pol' = polStore[pol'.id]
              /\ fundDistListOrig' = pol'.fundDistribution
        /\ (pc \in {"uec_detach", "rp_detach"})
           => /\ fundDistListOrig' = fundDistListOrig
              /\ pol' = pol
              /\ pc' \in {"ec_write", "rp_return"}
                 => ret'.snapshot = json_dumps(fundDistListOrig)
        /\ (pc \in {"uec_reattach", "rp_reattach"})
           => /\ fundDistListOrig = pol.fundDistribution
              /\ Len(pol.fundDistribution) > 0
                 => pol'.fundDistribution # pol.fundDistribution
              /\ pc' \in {"ec_write", "rp_return"}
              /\ json_loads(ret'.snapshot) = pol.fundDistribution
              /\ ret'.status = sent'[Len(sent')].status
              /\ ret'.msg = resp_text(sent'[Len(sent')].status)
        /\ (pc = "pf_set")
           => /\ pol.fundDistribution = polStore[pol.id].fundDistribution
              /\ pol'.fundDistribution # pol.fundDistribution
              /\ pc' = "pf_write"
              /\ json_loads(ret'.snapshot) = pol.fundDistribution
              /\ ret'.status = sent'[Len(sent')].status
              /\ ret'.msg = resp_text(sent'[Len(sent')].status)
      ]_vars

C13_Witness ==
    /\ pc = "ec_write"
    /\ Len(sent) = 2
    /\ sent[1].status = 204
    /\ ret.status = 500
    /\ ret.msg = resp_text(500)
    /\ json_loads(ret.snapshot) = InitPolStore[pol.id].fundDistribution
    /\ pol.fundDistribution # InitPolStore[pol.id].fundDistribution

-----------------------------------------------------------------------------
(* C14 *)

\* the request k of the log is an accepted detach that no later accepted
\* reattach of the same POL has closed
WindowOpen(k) ==
    /\ IsDetach(sent[k]) /\ sent[k].status = 204
    /\ ~\E m \in (k + 1)..Len(sent) :
           IsReattach(sent[m]) /\ sent[m].id = sent[k].id /\ sent[m].status = 204

\* C14: from an accepted detach PUT until an accepted reattach PUT the remote
\* POL has no fund distribution, and after a rejected reattach PUT no further
\* write is sent for that POL, so it stays without one to the end of the run.
C14_WindowStaysOpen ==
    script \in DetachScripts =>
        \A k \in 1..Len(sent) :
            /\ WindowOpen(k) =>
                   /\ ~polStore[sent[k].id].hasFD
                   /\ polStore[sent[k].id].fundDistribution = <<>>
            /\ (IsReattach(sent[k]) /\ sent[k].status # 204) =>
                   \A m \in (k + 1)..Len(sent) : sent[m].id # sent[k].id

\* the same row twice: the first run leaves the window open, the second row
\* is over and nothing more was sent
C14_Witness ==
    /\ script = "pol_expenseclasses"
    /\ Len(input) = 2 /\ input[1] = input[2]
    /\ pc = "done"
    /\ Len(sent) = 2
    /\ WindowOpen(1)
    /\ IsReattach(sent[2]) /\ sent[2].status = 500 /\ sent[2].id = sent[1].id
    /\ ~polStore[sent[1].id].hasFD

-----------------------------------------------------------------------------
(* C15 *)

\* pol_expenseclasses.py was given the same row twice, the first run of it
\* ended in a partial failure (detach accepted, reattach rejected) and the
\* second run of it is over
ReplayedAfterPartialFailure ==
    /\ script = "pol_expenseclasses"
    /\ Len(input) = 2 /\ input[1] = input[2]
    /\ Len(sent) >= 2
    /\ IsDetach(sent[1]) /\ sent[1].status = 204
    /\ IsReattach(sent[2]) /\ sent[2].status # 204 /\ sent[2].id = sent[1].id
    /\ RowOver(2)

\* C15 as stated: the replay of a row after a partial failure sends a second
\* detach PUT and then a reattach PUT for the same POL.
C15_ReplayDetachesAgain ==
    ReplayedAfterPartialFailure =>
        /\ Len(sent) >= 4
        /\ IsDetach(sent[3]) /\ sent[3].id = sent[1].id
        /\ IsReattach(sent[4]) /\ sent[4].id = sent[1].id

\* C15: the replay of a row after a partial failure finds the POL without fund
\* distribution; main_loop writes the row "POL has 0 fund distributions" with
\* manual_review Y for it and sends nothing, so the POL stays as it was left.
C15_ReplayIsRejected ==
    ReplayedAfterPartialFailure =>
        /\ Len(sent) = 2
        /\ Len(audit) = 2
        /\ audit[2].pol_no = input[2][1]
        /\ audit[2].pol_id = ""
        /\ audit[2].status_code = ""
        /\ audit[2].message = "POL has 0 fund distributions"
        /\ audit[2].manual_review = "Y"
        /\ ~polStore[sent[1].id].hasFD

C15_Witness ==
    /\ ReplayedAfterPartialFailure
    /\ pc = "done"
    /\ audit[1].status_code = "500"
    /\ audit[2].message = "POL has 0 fund distributions"

-----------------------------------------------------------------------------
(* C16 *)

FundScripts == {"pol_fund", "pol-fund-batch"}

EncumbrancesOf(fd) == {fd[k].encumbrance : k \in 1..Len(fd)}

\* the first row of a fund script is over, its audit row reports success for a
\* POL that had two or more fund distributions
MultiDistributionSuccess ==
    /\ script \in FundScripts
    /\ rowIdx = 1 /\ pc \in {"loop", "done"}
    /\ Len(audit) = 1
    /\ audit[1].status_code = "204"
    /\ audit[1].pol_id # ""
    /\ Len(InitPolStore[audit[1].pol_id].fundDistribution) >= 2

\* C16: after a successful reassignment of a POL with two or more fund
\* distributions every distribution of the remote POL carries the requested
\* fund code and a new token, different from the POL's original tokens and
\* from the tokens of the other distributions.
C16_EveryDistributionReassigned ==
    MultiDistributionSuccess =>
        LET id == audit[1].pol_id
            fd == polStore[id].fundDistribution
        IN  /\ Len(fd) = Len(InitPolStore[id].fundDistribution)
            /\ \A i \in 1..Len(fd) :
                   /\ fd[i].code = input[1][2]
                   /\ fd[i].encumbrance \notin EncumbrancesOf(InitPolStore[id].fundDistribution)
                   /\ \A j \in 1..Len(fd) :
                          j # i => fd[j].encumbrance # fd[i].encumbrance

-----------------------------------------------------------------------------
(* C17 *)

\* update_expense_class has just returned from an accepted reattach PUT
ExpenseClassReassigned ==
    /\ script = "pol_expenseclasses"
    /\ pc = "ec_write"
    /\ ret.status = 204
    /\ Len(sent) > 0 /\ IsReattach(LastSent) /\ LastSent.status = 204

\* C17: after a successful expense-class reassignment of a row the
\* expenseClassId of every fund distribution in the reattach PUT body is the
\* id of the expense class whose code is the code of the row.
C17_ExpenseClassIdIsTheId ==
    ExpenseClassReassigned =>
        LET fd == LastSent.body.fundDistribution
        IN  \A k \in 1..Len(fd) :
                fd[k].expenseClassId = EcStr(ec_by_code(input[rowIdx][2]).id)

-----------------------------------------------------------------------------
(* C18 *)

\* the scripts whose engine calls uuid.uuid4
GeneratingScripts == DetachScripts \cup {"pol_fund"}

\* the tokens request k carries: in these scripts every PUT with a
\* fundDistribution is sent right after the loop that generated its tokens
Generated(k) ==
    IF sent[k].op = "PUT" /\ sent[k].body.hasFD
    THEN EncumbrancesOf(sent[k].body.fundDistribution)
    ELSE {}

\* C18: tokens are never reused: the tokens an engine invocation generates
\* are distinct from each other, from the tokens every earlier invocation of the
\* run generated (a replay after a rejected PUT included) and from the tokens
\* the POLs had before.
C18_TokensNeverReused ==
    script \in GeneratingScripts =>
        \A k \in 1..Len(sent) :
            (sent[k].op = "PUT" /\ sent[k].body.hasFD) =>
                /\ Cardinality(Generated(k)) = Len(sent[k].body.fundDistribution)
                /\ Generated(k) \cap InitTokens = {}
                /\ Generated(k) \cap EncumbrancesOf(InitPolStore[sent[k].id].fundDistribution) = {}
                /\ \A m \in 1..(k - 1) : Generated(m) \cap Generated(k) = {}

\* pol_fund.py replays a row after a rejected PUT: two invocations of
\* set_pol_fund on the same POL, each with its own token
C18_Witness ==
    /\ script = "pol_fund"
    /\ Len(input) = 2 /\ input[1] = input[2]
    /\ Len(sent) = 4
    /\ sent[2].op = "PUT" /\ sent[2].status = 500
    /\ sent[4].op = "PUT" /\ sent[4].id = sent[2].id
    /\ Generated(2) # {} /\ Generated(4) # {}
    /\ Generated(2) # Generated(4)

-----------------------------------------------------------------------------
(* C19 *)

\* the audit row of a successful reassignment of POL p whose distributions
\* were orig before: identifier, status, the snapshot with the original fund
\* code, manual_review no
IsSuccessRow(r, p, orig) ==
    /\ r.pol_id = p
    /\ r.status_code = "204"
    /\ r.message = ""
    /\ r.manual_review = "N"
    /\ r.original_fund_distribution # NoCell
    /\ json_loads(r.original_fund_distribution) = orig
    /\ Len(orig) = 1

\* pol_fund.py, the first row is over and both its writes (the release POST
\* and the PUT of set_pol_fund) were answered 204
FirstRowAllWritesAccepted ==
    /\ script = "pol_fund"
    /\ rowIdx = 1 /\ RowOver(1)
    /\ Len(sent) = 2
    /\ sent[1].op = "POST" /\ sent[1].status = 204
    /\ sent[2].op = "PUT" /\ sent[2].status = 204

\* the step of main_loop that writes the row after set_pol_fund returned 204
\* and the release before it was accepted
WritesRowAfterAcceptedWrites ==
    /\ pc = "pf_write"
    /\ ret.status = 204
    /\ Len(sent) >= 2
    /\ sent[Len(sent) - 1].op = "POST" /\ sent[Len(sent) - 1].status = 204

\* C19: a row of pol_fund.py whose line number matches one POL with one fund
\* distribution and whose writes are all accepted gets a single audit row with
\* the POL's identifier, status 204, the snapshot holding the original fund
\* code, and manual_review N.
C19_SuccessRow ==
    /\ [](FirstRowAllWritesAccepted =>
            /\ Len(audit) = 1
            /\ Matches(input[1][1]) = 1
            /\ audit[1].pol_no = input[1][1]
            /\ InitPolStore[audit[1].pol_id].poLineNumber = input[1][1]
            /\ IsSuccessRow(audit[1], sent[2].id,
                            InitPolStore[sent[2].id].fundDistribution)
            /\ json_loads(audit[1].original_fund_distribution)[1].code
                   # polStore[sent[2].id].fundDistribution[1].code)
    /\ [][WritesRowAfterAcceptedWrites =>
            /\ Len(audit') = Len(audit) + 1
            /\ audit'[Len(audit')].pol_no = input[rowIdx][1]
            /\ IsSuccessRow(audit'[Len(audit')], pol.id, fundDistListOrig)
            /\ polStore[pol.id].poLineNumber = input[rowIdx][1]
         ]_vars

C19_Witness ==
    /\ FirstRowAllWritesAccepted
    /\ pc = "done"
    /\ audit[1].pol_id = "p1"
    /\ json_loads(audit[1].original_fund_distribution)[1].code = "F1"
    /\ polStore["p1"].fundDistribution[1].code = "F2"
    /\ audit[1].manual_review = "N"

-----------------------------------------------------------------------------
(* C20 *)

\* today lies in the range of the k-th listed fiscal year, both ends taken as
\* calendar days and included
InRange(k) ==
    /\ fiscalYears[k].periodStart[1] <= today
    /\ today <= fiscalYears[k].periodEnd[1]

\* C20: get_fiscal_year returns a listed fiscal year only if its range, taken
\* as dates with both ends included, holds today; it returns one whenever
\* there is one, and None exactly when no listed range holds today.
C20_CurrentFiscalYear ==
    pc # "start" =>
        /\ fiscal_year.found =>
               \E k \in 1..Len(fiscalYears) :
                   InRange(k) /\ fiscal_year.fy.id = fiscalYears[k].id
        /\ (\E k \in 1..Len(fiscalYears) : InRange(k)) => fiscal_year.found
        /\ ~fiscal_year.found => fiscal_year.fy.id = None

\* the second fiscal year is returned on its first day, which starts at 05:00,
\* and which is also its last day
C20_Witness ==
    /\ pc = "loop"
    /\ Len(fiscalYears) = 2
    /\ ~InRange(1)
    /\ fiscalYears[2].periodStart = <<today, 5>>
    /\ fiscalYears[2].periodEnd = <<today, 0>>
    /\ fiscal_year.found
    /\ fiscal_year.fy.id = fiscalYears[2].id

-----------------------------------------------------------------------------
(* C21 *)

\* C21: in pol_fund.main_loop the PUT of set_pol_fund is sent only after the
\* release-encumbrance POST for the same POL was answered 204; after any
\* other answer set_pol_fund is not called for the row.
C21_PutOnlyAfterAcceptedRelease ==
    script = "pol_fund" =>
        /\ \A k \in 1..Len(sent) :
               sent[k].op = "PUT" =>
                   /\ k > 1
                   /\ sent[k - 1].op = "POST"
                   /\ sent[k - 1].id = sent[k].id
                   /\ sent[k - 1].status = 204
        /\ pc = "pf_set" => (Len(sent) > 0 /\ LastSent.op = "POST" /\ LastSent.status = 204)

-----------------------------------------------------------------------------
(* C22 *)

\* the next row of pol_fund.py passes every test before the query for the
\* unreleased encumbrances of its POL
QueryReached ==
    /\ script = "pol_fund"
    /\ pc = "loop"
    /\ rowIdx < Len(input)
    /\ funds_has(input[rowIdx + 1][2])
    /\ Matches(input[rowIdx + 1][1]) = 1
    /\ LET r == get_pol_by_line_no(polStore, input[rowIdx + 1][1])
       IN  /\ r.kind = "pol"
           /\ r.pol.hasFD
           /\ Len(r.pol.fundDistribution) = 1
    /\ fiscal_year.found

\* C22: in pol_fund.main_loop, when the query does not return exactly one
\* unreleased encumbrance the row is written with manual_review Y and neither
\* the release POST nor the PUT is sent for it: the release and set_pol_fund
\* are reached only with exactly one.
C22_NotOneEncumbrance ==
    /\ [](pc \in {"pf_release", "pf_set", "pf_write"} => Len(enc_list) = 1)
    /\ [][(QueryReached /\ rowIdx' = rowIdx + 1 /\ Len(enc_list') # 1) =>
            /\ Len(audit') = Len(audit) + 1
            /\ audit'[Len(audit')].pol_no = input[rowIdx + 1][1]
            /\ audit'[Len(audit')].manual_review = "Y"
            /\ audit'[Len(audit')].message =
                   "POL has " \o ToString(Len(enc_list')) \o " unreleased encumbrances"
            /\ audit'[Len(audit')].pol_id = ""
            /\ sent' = sent
            /\ polStore' = polStore
            /\ pc' = "loop"
         ]_vars

\* two unreleased encumbrances were found for the first row
C22_Witness ==
    /\ script = "pol_fund"
    /\ rowIdx = 1 /\ pc \in {"loop", "done"}
    /\ Len(enc_list) = 2
    /\ Len(audit) = 1
    /\ audit[1].message = "POL has 2 unreleased encumbrances"
    /\ audit[1].manual_review = "Y"
    /\ sent = <<>>
    /\ polStore = InitPolStore

-----------------------------------------------------------------------------
(* C23 *)

\* item i of the store had neither permanentLocationId nor permanentLocation
\* when the run began
HadNoLocation(i) ==
    /\ ~truthy(InitItemStore[i].permanentLocationId)
    /\ ~truthy(InitItemStore[i].permanentLocation)

\* C23: in delete_location_loop and delete_location_loop_safe an item with
\* neither permanentLocationId nor permanentLocation is never PUT, and the
\* output row of a barcode that matches only such an item has status code 0
\* and the message "Item had no permanentLocation".
C23_NoLocationNeverPut ==
    script \in ItemScripts =>
        /\ \A k \in 1..Len(sent) : ~HadNoLocation(sent[k].id)
        /\ \A k \in 1..Len(audit) :
               \A i \in DOMAIN InitItemStore :
                   (/\ InitItemStore[i].barcode = input[k][1]
                    /\ folio_get_items(InitItemStore, input[k][1]).totalRecords = 1
                    /\ HadNoLocation(i)) =>
                       /\ audit[k].status_code = "0"
                       /\ audit[k].msg = "Item had no permanentLocation"

-----------------------------------------------------------------------------
(* C24 *)

\* the POL of request k as the store held it before the request: the body of
\* the last accepted PUT for it, or the record the run began with
StoredBefore(k) ==
    LET ms == {m \in 1..(k - 1) : sent[m].id = sent[k].id /\ sent[m].status = 204}
    IN  IF ms = {} THEN InitPolStore[sent[k].id]
        ELSE sent[CHOOSE m \in ms : \A n \in ms : n <= m].body

\* C24: in update_expense_class and reencumber_pol the detach PUT body is the
\* POL as passed in without its fundDistribution, and the reattach PUT body is
\* the POL as passed in but for the encumbrance token (and the expenseClassId
\* in update_expense_class) of each distribution: their number, order, fund
\* code and fundId are kept.
C24_PutBodiesKeepThePol ==
    script \in DetachScripts =>
        \A k \in 1..Len(sent) :
            /\ IsDetach(sent[k]) =>
                   /\ StoredBefore(k).hasFD
                   /\ sent[k].body = [StoredBefore(k) EXCEPT !.hasFD = FALSE,
                                                            !.fundDistribution = <<>>]
            /\ IsReattach(sent[k]) =>
                   /\ k > 1
                   /\ LET passed == StoredBefore(k - 1)
                          body   == sent[k].body
                      IN  /\ body.id = passed.id
                          /\ body.poLineNumber = passed.poLineNumber
                          /\ Len(body.fundDistribution) = Len(passed.fundDistribution)
                          /\ \A i \in 1..Len(passed.fundDistribution) :
                                 /\ body.fundDistribution[i].code
                                        = passed.fundDistribution[i].code
                                 /\ body.fundDistribution[i].fundId
                                        = passed.fundDistribution[i].fundId
                                 /\ script = "reencumber_pol" =>
                                        body.fundDistribution[i].expenseClassId
                                            = passed.fundDistribution[i].expenseClassId

\* reencumber_pol twice on the POL with two distributions, every PUT accepted
C24_Witness ==
    /\ script = "reencumber_pol"
    /\ Len(sent) = 4
    /\ \A k \in 1..4 : sent[k].id = "p4" /\ sent[k].status = 204
    /\ IsDetach(sent[3]) /\ IsReattach(sent[4])
    /\ Len(sent[4].body.fundDistribution) = 2
    /\ sent[4].body.fundDistribution[2].code = "F1"
    /\ sent[4].body.fundDistribution[2].encumbrance
           # sent[2].body.fundDistribution[2].encumbrance

-----------------------------------------------------------------------------
(* C25 *)

\* C25: in every POL PUT of pol_fund.py and pol-fund-batch.py the fundId of
\* each fund distribution is the id of the fund whose code the distribution
\* carries: the code is never changed without the fundId.
C25_FundIdMatchesCode ==
    script \in FundScripts =>
        \A k \in 1..Len(sent) :
            sent[k].op = "PUT" =>
                \A i \in 1..Len(sent[k].body.fundDistribution) :
                    LET fd == sent[k].body.fundDistribution[i]
                    IN  /\ funds_has(fd.code)
                        /\ fd.fundId = funds(fd.code).id

====
